---- MODULE Spec2Model ----
(***************************************************************************)
(* Model of mdp/nodes/lcov.py: the precision guard _check_roundoff and the *)
(* two incremental accumulators CovarianceMatrix and                       *)
(* DelayCovarianceMatrix.                                                  *)
(*                                                                         *)
(* Numbers.  The accumulators hold floating-point arrays.  The samples of  *)
(* the model are small integers and every running sum stays below 2^24,    *)
(* so each addition and product of update is exact in single and in double *)
(* precision and is modelled by integer arithmetic.  The divisions of fix  *)
(* are modelled by exact rationals; a division by zero gives a non-finite  *)
(* value or raises, depending on the numeric backend (variable zdiv).      *)
(* The observation count handed to the guard is a number hi*10^7 + lo      *)
(* (+ 1/2), so that the ceiling 1e13 can be written down.                  *)
(*                                                                         *)
(* Arrays.  A two-dimensional array x is [typecode, dim, runs]: runs is    *)
(* the run-length encoding of its rows (row r repeated k times), so that   *)
(* an array of 1e5 rows can be fed to update.                              *)
(***************************************************************************)
EXTENDS Integers, Sequences, FiniteSets, TLC

\* ---------------------------------------------------------------- bounds
MaxDt == 1
MaxRows == 2
MaxBatches == 2
MaxAborts == 1

\* ------------------------------------------------------- python's None
None == <<>>          \* an unset array attribute, or no return value
TNone == "None"       \* typecode = None
NoDim == 0            \* the attribute _input_dim does not exist yet

\* ------------------------------------------------------------ integers
Min(a, b) == IF a < b THEN a ELSE b
Max(a, b) == IF a > b THEN a ELSE b
Abs(a) == IF a < 0 THEN -a ELSE a

RECURSIVE GCD(_, _)
GCD(a, b) == IF b = 0 THEN a ELSE GCD(b, a % b)

\* ----------------------------------------------- rationals (results of /)
\* [num, den] in lowest terms with den > 0; NonFinite is inf or nan.
NonFinite == [num |-> 0, den |-> 0]
QNorm(p, q) ==
    IF q = 0 THEN NonFinite
    ELSE LET g == GCD(Abs(p), Abs(q))
             s == IF q < 0 THEN -1 ELSE 1
         IN  [num |-> (s * p) \div g, den |-> (s * q) \div g]
QInt(i) == [num |-> i, den |-> 1]
QDiv(a, n) == IF a = NonFinite THEN NonFinite ELSE QNorm(a.num, a.den * n)
QSub(a, b) ==
    IF a = NonFinite \/ b = NonFinite THEN NonFinite
    ELSE QNorm(a.num * b.den - b.num * a.den, a.den * b.den)
QAdd(a, b) ==
    IF a = NonFinite \/ b = NonFinite THEN NonFinite
    ELSE QNorm(a.num * b.den + b.num * a.den, a.den * b.den)
QMul(a, b) ==
    IF a = NonFinite \/ b = NonFinite THEN NonFinite
    ELSE QNorm(a.num * b.num, a.den * b.den)

\* ------------------------------------------------- vectors and matrices
\* the tuple <<f[1], ..., f[n]>> (evaluated once)
Tup(n, f) == SubSeq(f, 1, n)
zeros1(d) == Tup(d, [i \in 1..d |-> 0])
zeros2(r, c) == Tup(r, [i \in 1..r |-> zeros1(c)])
VAdd(u, v) == Tup(Len(u), [i \in 1..Len(u) |-> u[i] + v[i]])
VSub(u, v) == Tup(Len(u), [i \in 1..Len(u) |-> u[i] - v[i]])
VScale(k, u) == Tup(Len(u), [i \in 1..Len(u) |-> k * u[i]])
outerproduct(u, v) == Tup(Len(u), [i \in 1..Len(u) |-> VScale(u[i], v)])
MAdd(A, B) == Tup(Len(A), [i \in 1..Len(A) |-> VAdd(A[i], B[i])])
MScale(k, A) == Tup(Len(A), [i \in 1..Len(A) |-> VScale(k, A[i])])
Column(A, j) == Tup(Len(A), [i \in 1..Len(A) |-> A[i][j]])
tr(A) == Tup(Len(A[1]), [j \in 1..Len(A[1]) |-> Column(A, j)])

VQ(u) == Tup(Len(u), [i \in 1..Len(u) |-> QInt(u[i])])
MQ(A) == Tup(Len(A), [i \in 1..Len(A) |-> VQ(A[i])])
VQDiv(u, n) == Tup(Len(u), [i \in 1..Len(u) |-> QDiv(u[i], n)])
MQDiv(A, n) == Tup(Len(A), [i \in 1..Len(A) |-> VQDiv(A[i], n)])
VQSub(u, v) == Tup(Len(u), [i \in 1..Len(u) |-> QSub(u[i], v[i])])
MQSub(A, B) == Tup(Len(A), [i \in 1..Len(A) |-> VQSub(A[i], B[i])])
VInt(u) == Tup(Len(u), [i \in 1..Len(u) |-> u[i].num])
MInt(A) == Tup(Len(A), [i \in 1..Len(A) |-> VInt(A[i])])

RECURSIVE QDot(_, _, _)
QDot(u, v, n) == IF n = 0 THEN QInt(0) ELSE QAdd(QDot(u, v, n - 1), QMul(u[n], v[n]))
\* matrix product of two rational matrices
multQ(A, B) ==
    LET Bt == tr(B)
    IN  Tup(Len(A), [i \in 1..Len(A) |->
            Tup(Len(Bt), [j \in 1..Len(Bt) |-> QDot(A[i], Bt[j], Len(B))])])

\* ------------------------------------------------ run-length encoded arrays
RECURSIVE NRows(_)
NRows(runs) == IF runs = <<>> THEN 0 ELSE Head(runs).k + NRows(Tail(runs))
shape0(x) == NRows(x.runs)

\* x[lo:hi] on the rows (0-based, hi exclusive)
RECURSIVE SliceRuns(_, _, _)
SliceRuns(runs, lo, hi) ==
    IF runs = <<>> THEN <<>>
    ELSE LET k == Head(runs).k
             a == Max(lo, 0)
             b == Min(hi, k)
             rest == SliceRuns(Tail(runs), lo - k, hi - k)
         IN  IF b > a THEN <<[row |-> Head(runs).row, k |-> b - a]>> \o rest ELSE rest
Slice(x, lo, hi) == [x EXCEPT !.runs = SliceRuns(x.runs, lo, hi)]

\* numx.sum(x, 0): the column-wise sum
RECURSIVE SumRuns(_, _)
SumRuns(runs, dim) ==
    IF runs = <<>> THEN zeros1(dim)
    ELSE VAdd(VScale(Head(runs).k, Head(runs).row), SumRuns(Tail(runs), dim))
sum0(x) == SumRuns(x.runs, x.dim)

\* mult(tr(a), b) for two arrays with as many rows: the sum over the rows t
\* of outer(a[t], b[t]), taken run by run
DropRows(runs, m) ==
    IF Head(runs).k = m THEN Tail(runs)
    ELSE <<[Head(runs) EXCEPT !.k = @ - m]>> \o Tail(runs)
RECURSIVE TrMultRuns(_, _, _)
TrMultRuns(ra, rb, dim) ==
    IF ra = <<>> \/ rb = <<>> THEN zeros2(dim, dim)
    ELSE LET m == Min(Head(ra).k, Head(rb).k)
         IN  MAdd(MScale(m, outerproduct(Head(ra).row, Head(rb).row)),
                  TrMultRuns(DropRows(ra, m), DropRows(rb, m), dim))
TrMult(a, b) == TrMultRuns(a.runs, b.runs, a.dim)

\* utils.refcast(x, typecode): the same array with the accumulator's typecode
\* (the samples of the model are exact in every typecode)
refcast(x, typecode) == [x EXCEPT !.typecode = typecode]

\* ------------------------------------------------------ precision guard
Base == 10^7
\* the number hi*Base + lo + frac/2
Num(hi, lo, frac) == [hi |-> hi, lo |-> lo, frac |-> frac]
E(e) == IF e >= 7 THEN Num(10^(e - 7), 0, 0) ELSE Num(0, 10^e, 0)
NumGE(a, b) == a.hi > b.hi \/ (a.hi = b.hi /\ (a.lo > b.lo \/ (a.lo = b.lo /\ a.frac >= b.frac)))
int(t) == [t EXCEPT !.frac = 0]
Val(t) == t.hi * Base + t.lo

\* precision warning parameters
_limits == [d |-> E(13), f |-> E(5)]

\* variant: the comparison is > instead of >=
check_roundoff_gt(t, type) ==
    IF type \in DOMAIN _limits
    THEN NumGE(int(t), _limits[type]) /\ int(t) # _limits[type]
    ELSE FALSE

\* TRUE iff _check_roundoff(t, type) raises mdp.MDPWarning
_check_roundoff(t, type) ==
    IF type \in DOMAIN _limits THEN NumGE(int(t), _limits[type]) ELSE FALSE

\* utils.scast(n, typecode): the python integer n as a scalar of the typecode
scast(n, typecode) == Num(n \div Base, n % Base, 0)

\* ------------------------------------------------- outcomes of a call
Returned == "returned"
Raise(self, exc) == [self |-> self, raised |-> exc, ret |-> None]

\* ------------------------------------------------------ CovarianceMatrix
CovarianceMatrix(typecode) ==
    [typecode |-> typecode, cov_mtx |-> None, avg |-> None, tlen |-> 0,
     input_dim |-> NoDim]

Cov_init_internals(self, x) ==
    LET type == IF self.typecode = TNone THEN x.typecode ELSE self.typecode
        dim == x.dim
    IN  [self EXCEPT !.typecode = type, !.input_dim = dim,
                     !.cov_mtx = zeros2(dim, dim), !.avg = zeros1(dim)]

\* variant: the average is assigned, not accumulated
Cov_update_assign(self, x0) ==
    LET s == IF self.cov_mtx = None THEN Cov_init_internals(self, x0) ELSE self
        x == refcast(x0, s.typecode)
    IN  [s EXCEPT !.cov_mtx = MAdd(@, TrMult(x, x)),
                  !.avg = sum0(x),
                  !.tlen = @ + shape0(x)]

Cov_update(self, x0) ==
    LET s == IF self.cov_mtx = None THEN Cov_init_internals(self, x0) ELSE self
        x == refcast(x0, s.typecode)
    IN  [s EXCEPT !.cov_mtx = MAdd(@, TrMult(x, x)),
                  !.avg = VAdd(@, sum0(x)),
                  !.tlen = @ + shape0(x)]

\* variant: the clean-up forgets self._tlen = 0
Cov_clean_keep_tlen(self) == [self EXCEPT !.cov_mtx = None, !.avg = None]

\* the instance after the clean-up at the end of fix
Cov_clean(self) == [self EXCEPT !.cov_mtx = None, !.avg = None, !.tlen = 0]

\* variant: the covariance is divided by tlen, not by tlen - 1
Cov_fix_biased(self, zd) ==
    LET n == self.tlen
    IN  IF self.avg = None THEN Raise(self, "TypeError")
        ELSE IF n = 0 /\ zd = "raise" THEN Raise(self, "ZeroDivisionError")
        ELSE LET avg_mtx == MQDiv(MQ(outerproduct(self.avg, self.avg)), n * n)
                 cov1 == MQDiv(MQ(self.cov_mtx), n)
             IN  [self |-> Cov_clean(self), raised |-> Returned,
                  ret |-> <<MQSub(cov1, avg_mtx), VQDiv(VQ(self.avg), n), n>>]

\* fix, from "avg = self._avg" on
Cov_fix_compute(self, zd) ==
    LET type == self.typecode
        tlen == scast(self.tlen, type)
        n == Val(tlen)
        one == Val(scast(1, type))
    IN  IF self.avg = None THEN Raise(self, "TypeError")
        ELSE IF n * (n - one) = 0 /\ zd = "raise" THEN Raise(self, "ZeroDivisionError")
        ELSE LET avg_mtx == MQDiv(MQ(outerproduct(self.avg, self.avg)), n * (n - one))
                 cov1 == MQDiv(MQ(self.cov_mtx), n - one)
                 cov_mtx == MQSub(cov1, avg_mtx)
                 avg == VQDiv(VQ(self.avg), n)
             IN  [self |-> Cov_clean(self), raised |-> Returned,
                  ret |-> <<cov_mtx, avg, n>>]

\* variant: the clean-up is done before the guard is asked
Cov_fix_clean_first(self, zd) ==
    IF _check_roundoff(scast(self.tlen, self.typecode), self.typecode)
    THEN Raise(Cov_clean(self), "MDPWarning")
    ELSE Cov_fix_compute(self, zd)

Cov_fix(self, zd) ==
    LET type == self.typecode
        tlen == scast(self.tlen, type)
    IN  IF _check_roundoff(tlen, type) THEN Raise(self, "MDPWarning")
        ELSE Cov_fix_compute(self, zd)

\* ------------------------------------------------- DelayCovarianceMatrix
DelayCovarianceMatrix(dt, typecode) ==
    [dt |-> dt, typecode |-> typecode, cov_mtx |-> None, avg |-> None,
     avg_dt |-> None, tlen |-> 0, input_dim |-> NoDim]

Delay_init_internals(self, x) ==
    LET type == IF self.typecode = TNone THEN x.typecode ELSE self.typecode
        dim == x.dim
    IN  [self EXCEPT !.typecode = type, !.input_dim = dim,
                     !.cov_mtx = zeros2(dim, dim), !.avg = zeros1(dim),
                     !.avg_dt = zeros1(dim)]

\* variant: the lagged sum leaves out the first dt + 1 rows, and every row
\* is counted
Delay_update_off(self, x0) ==
    LET s == IF self.cov_mtx = None THEN Delay_init_internals(self, x0) ELSE self
        x == refcast(x0, s.typecode)
        dt == s.dt
        tlen == shape0(x)
        totalsum == sum0(x)
    IN  IF tlen < dt + 1 THEN [self |-> s, raised |-> "MDPException"]
        ELSE [self |-> [s EXCEPT
                 !.cov_mtx = MAdd(@, TrMult(Slice(x, 0, tlen - dt), Slice(x, dt, tlen))),
                 !.avg = VAdd(@, VSub(totalsum, sum0(Slice(x, tlen - dt, tlen)))),
                 !.avg_dt = VAdd(@, VSub(totalsum, sum0(Slice(x, 0, dt + 1)))),
                 !.tlen = @ + tlen],
              raised |-> Returned]

\* variant: the products pair each row with itself, not with the row dt later
Delay_update_nolag(self, x0) ==
    LET s == IF self.cov_mtx = None THEN Delay_init_internals(self, x0) ELSE self
        x == refcast(x0, s.typecode)
        dt == s.dt
        tlen == shape0(x)
        totalsum == sum0(x)
    IN  IF tlen < dt + 1 THEN [self |-> s, raised |-> "MDPException"]
        ELSE [self |-> [s EXCEPT
                 !.cov_mtx = MAdd(@, TrMult(Slice(x, 0, tlen - dt), Slice(x, 0, tlen - dt))),
                 !.avg = VAdd(@, VSub(totalsum, sum0(Slice(x, tlen - dt, tlen)))),
                 !.avg_dt = VAdd(@, VSub(totalsum, sum0(Slice(x, 0, dt)))),
                 !.tlen = @ + tlen - dt],
              raised |-> Returned]

Delay_update(self, x0) ==
    LET s == IF self.cov_mtx = None THEN Delay_init_internals(self, x0) ELSE self
        x == refcast(x0, s.typecode)
        dt == s.dt
        tlen == shape0(x)
        totalsum == sum0(x)
    IN  IF tlen < dt + 1 THEN [self |-> s, raised |-> "MDPException"]
        ELSE [self |-> [s EXCEPT
                 !.cov_mtx = MAdd(@, TrMult(Slice(x, 0, tlen - dt), Slice(x, dt, tlen))),
                 !.avg = VAdd(@, VSub(totalsum, sum0(Slice(x, tlen - dt, tlen)))),
                 !.avg_dt = VAdd(@, VSub(totalsum, sum0(Slice(x, 0, dt)))),
                 !.tlen = @ + tlen - dt],
              raised |-> Returned]

Delay_clean(self) ==
    [self EXCEPT !.cov_mtx = None, !.avg = None, !.avg_dt = None, !.tlen = 0]

\* fix, from "avg = self._avg" on
Delay_fix_compute(self, A, zd) ==
    LET type == self.typecode
        tlen == scast(self.tlen, type)
        n == Val(tlen)
        one == Val(scast(1, type))
    IN  IF self.avg = None THEN Raise(self, "TypeError")
        ELSE IF n = 0 /\ zd = "raise" THEN Raise(self, "ZeroDivisionError")
        ELSE LET avg_mtx == MQDiv(MQ(outerproduct(self.avg, self.avg_dt)), n)
                 cov1 == MQSub(MQ(self.cov_mtx), avg_mtx)
             IN  IF n - one = 0 /\ zd = "raise"
                 THEN \* cov_mtx -= avg_mtx was done in place on self._cov_mtx
                      Raise([self EXCEPT !.cov_mtx = MInt(cov1)], "ZeroDivisionError")
                 ELSE LET cov2 == MQDiv(cov1, n - one)
                          cov_mtx == IF A # None
                                     THEN multQ(MQ(A), multQ(cov2, MQ(tr(A))))
                                     ELSE cov2
                          avg == VQDiv(VQ(self.avg), n)
                          avg_dt == VQDiv(VQ(self.avg_dt), n)
                      IN  [self |-> Delay_clean(self), raised |-> Returned,
                           ret |-> <<cov_mtx, avg, avg_dt, n>>]

\* variant: the count is reset before the guard is asked
Delay_fix_reset_first(self, A, zd) ==
    IF _check_roundoff(scast(self.tlen, self.typecode), self.typecode)
    THEN Raise([self EXCEPT !.tlen = 0], "MDPWarning")
    ELSE Delay_fix_compute(self, A, zd)

Delay_fix(self, A, zd) ==
    LET type == self.typecode
        tlen == scast(self.tlen, type)
    IN  IF _check_roundoff(tlen, type) THEN Raise(self, "MDPWarning")
        ELSE Delay_fix_compute(self, A, zd)

\* ------------------------------------------------------------ the inputs
Example == << <<1, 2>>, <<3, 4>>, <<5, 6>> >>
Samples == {<<1>>, <<2>>}
Typecodes == {"d", "f"}
Runs(rows) == Tup(Len(rows), [i \in 1..Len(rows) |-> [row |-> rows[i], k |-> 1]])
\* one run of as many rows as the single-precision ceiling, and dt more
BulkRows == Val(_limits.f) + MaxDt
Arrays ==
    {[dim |-> 1, runs |-> Runs(s)] :
        s \in UNION {[1..n -> Samples] : n \in 0..MaxRows}}
    \cup {[dim |-> 2, runs |-> Runs(SubSeq(Example, i, j))] :
        i \in 1..3, j \in 1..3}
    \cup {[dim |-> 1, runs |-> <<[row |-> <<1>>, k |-> BulkRows]>>]}
Typed(a, tc) == [typecode |-> tc, dim |-> a.dim, runs |-> a.runs]
NoArray == [dim |-> NoDim, runs |-> <<>>]
Transforms(dim) ==
    IF dim = 1 THEN {<< <<2>> >>}
    ELSE IF dim = 2 THEN {<< <<1, 1>>, <<0, 1>> >>}
    ELSE {}

\* -------------------------------------------------------------- the state
VARIABLES
    plain,      \* a CovarianceMatrix
    delay,      \* a DelayCovarianceMatrix, fed the same calls
    ctor,       \* the constructor arguments of both
    zdiv,       \* what the numeric backend does on x/0: "raise" or "nan"
    op,         \* the last call: its name and arguments
    outP,       \* what the last call did on plain: [raised, ret]
    outD,       \* what the last call did on delay
    histP,      \* the arrays plain.update took since its last clean-up
    histD,      \* the arrays delay.update took since its last clean-up
    first,      \* how plain's accumulation began: the _input_dim kept from
                \* the one before, and the typecode of its first array
    warnedP,    \* _tlen of plain when its fix first raised MDPWarning, or 0
    warnedD,    \* the same for delay
    dirty,      \* how often delay.fix was aborted after changing _cov_mtx in place
    guard       \* a call of _check_roundoff: [t, type, raised]

vars == <<plain, delay, ctor, zdiv, op, outP, outD, histP, histD, first,
          warnedP, warnedD, dirty, guard>>

NoCall == [t |-> Num(0, 0, 0), type |-> TNone, raised |-> "no call"]
NoFirst == [dim |-> NoDim, typecode |-> TNone]

Init ==
    /\ ctor \in [dt : 0..MaxDt, typecode : {TNone, "f"}]
    /\ zdiv \in {"raise", "nan"}
    /\ plain = CovarianceMatrix(ctor.typecode)
    /\ delay = DelayCovarianceMatrix(ctor.dt, ctor.typecode)
    /\ op = [name |-> "init", x |-> NoArray, A |-> None]
    /\ outP = [raised |-> Returned, ret |-> None]
    /\ outD = [raised |-> Returned, ret |-> None]
    /\ histP = <<>>
    /\ histD = <<>>
    /\ first = NoFirst
    /\ warnedP = 0
    /\ warnedD = 0
    /\ dirty = 0
    /\ guard = NoCall

\* fix can be evaluated at count n: n is small enough for the exact
\* rationals of the model, or the guard raises
Evaluable(n, type) == n < 2^10 \/ _check_roundoff(scast(n, type), type)

\* the caller has taken what the last call returned
Collected == outP.ret = None /\ outD.ret = None

\* both accumulators are handed the array x
Update(x) ==
    LET p == Cov_update(plain, x)
        d == Delay_update(delay, x)
        a == [dim |-> x.dim, runs |-> x.runs]
    IN  /\ Collected
        /\ Len(histP) < MaxBatches
        /\ Len(histD) < MaxBatches
        \* the caller keeps the row width of an accumulation
        /\ plain.cov_mtx = None \/ x.dim = plain.input_dim
        /\ delay.cov_mtx = None \/ x.dim = delay.input_dim
        /\ Evaluable(p.tlen, p.typecode)
        /\ Evaluable(d.self.tlen, d.self.typecode)
        /\ plain' = p
        /\ delay' = d.self
        /\ op' = [name |-> "update", x |-> a, A |-> None]
        /\ outP' = [raised |-> Returned, ret |-> None]
        /\ outD' = [raised |-> d.raised, ret |-> None]
        /\ histP' = Append(histP, a)
        /\ histD' = IF d.raised = Returned THEN Append(histD, a) ELSE histD
        /\ first' = IF plain.cov_mtx = None
                    THEN [dim |-> plain.input_dim, typecode |-> x.typecode]
                    ELSE first
        /\ UNCHANGED <<ctor, zdiv, warnedP, warnedD, dirty, guard>>

\* fix() on plain and fix(A) on delay
Fix(A) ==
    LET p == Cov_fix(plain, zdiv)
        d == Delay_fix(delay, A, zdiv)
    IN  /\ Collected
        \* an aborted fix may change _cov_mtx again and again
        /\ d.self # delay /\ d.raised # Returned => dirty < MaxAborts
        /\ plain' = p.self
        /\ delay' = d.self
        /\ op' = [name |-> "fix", x |-> NoArray, A |-> A]
        /\ outP' = [raised |-> p.raised, ret |-> p.ret]
        /\ outD' = [raised |-> d.raised, ret |-> d.ret]
        /\ histP' = IF p.raised = Returned THEN <<>> ELSE histP
        /\ histD' = IF d.raised = Returned THEN <<>> ELSE histD
        /\ warnedP' = IF warnedP = 0 /\ p.raised = "MDPWarning" THEN plain.tlen ELSE warnedP
        /\ warnedD' = IF warnedD = 0 /\ d.raised = "MDPWarning" THEN delay.tlen ELSE warnedD
        /\ dirty' = IF d.raised = Returned THEN 0
                    ELSE IF d.self # delay THEN dirty + 1 ELSE dirty
        /\ UNCHANGED <<ctor, zdiv, first, guard>>

\* the caller takes the tuples that fix returned
Collect ==
    /\ ~Collected
    /\ outP' = [outP EXCEPT !.ret = None]
    /\ outD' = [outD EXCEPT !.ret = None]
    /\ op' = [name |-> "collect", x |-> NoArray, A |-> None]
    /\ UNCHANGED <<plain, delay, ctor, zdiv, histP, histD, first,
                   warnedP, warnedD, dirty, guard>>

UpdateCall == \E a \in Arrays, tc \in Typecodes : Update(Typed(a, tc))
FixCall == \E A \in {None} \cup Transforms(delay.input_dim) : Fix(A)

Next == UpdateCall \/ FixCall \/ Collect

Spec == Init /\ [][Next]_vars

\* ------------------------------------------- the guard as a pure function
GuardTypes == {"d", "f", "D", "F", "i", TNone}
GuardCounts ==
    {Num(0, 0, 0), Num(0, 1, 0), Num(0, 1, 1), Num(0, 99998, 0),
     Num(0, 99999, 0), Num(0, 99999, 1), Num(0, 100000, 0), Num(0, 100000, 1),
     Num(0, 100001, 0), Num(0, 9999999, 1), Num(1, 0, 0),
     Num(999999, 9999998, 0), Num(999999, 9999999, 0), Num(999999, 9999999, 1),
     Num(1000000, 0, 0), Num(1000000, 0, 1), Num(1000000, 1, 0),
     Num(2000000, 0, 0)}

InitGuard ==
    /\ ctor = [dt |-> 0, typecode |-> TNone]
    /\ zdiv = "raise"
    /\ plain = CovarianceMatrix(ctor.typecode)
    /\ delay = DelayCovarianceMatrix(ctor.dt, ctor.typecode)
    /\ op = [name |-> "init", x |-> NoArray, A |-> None]
    /\ outP = [raised |-> Returned, ret |-> None]
    /\ outD = [raised |-> Returned, ret |-> None]
    /\ histP = <<>>
    /\ histD = <<>>
    /\ first = NoFirst
    /\ warnedP = 0
    /\ warnedD = 0
    /\ dirty = 0
    /\ guard \in [t : GuardCounts, type : GuardTypes, raised : {"pending"}]

CheckRoundoff ==
    /\ guard.raised = "pending"
    /\ guard' = [guard EXCEPT !.raised =
                    IF _check_roundoff(guard.t, guard.type) THEN "MDPWarning"
                    ELSE Returned]
    /\ UNCHANGED <<plain, delay, ctor, zdiv, op, outP, outD, histP, histD,
                   first, warnedP, warnedD, dirty>>

NextGuard == CheckRoundoff

SpecGuard == InitGuard /\ [][NextGuard]_vars

\* ===================================================== the properties
\* what the properties compare the accumulators with
RECURSIVE CatRuns(_)
CatRuns(hist) == IF hist = <<>> THEN <<>> ELSE Head(hist).runs \o CatRuns(Tail(hist))
\* B1 ++ B2 ++ ...
Concat(hist, tc) == [typecode |-> tc, dim |-> Head(hist).dim, runs |-> CatRuns(hist)]

RECURSIVE FoldCov(_, _)
FoldCov(self, hist) ==
    IF hist = <<>> THEN self
    ELSE FoldCov(Cov_update(self, Typed(Head(hist), self.typecode)), Tail(hist))
RECURSIVE FoldDelay(_, _)
FoldDelay(self, hist) ==
    IF hist = <<>> THEN self
    ELSE FoldDelay(Delay_update(self, Typed(Head(hist), self.typecode)).self, Tail(hist))

SumsP(self) == <<self.cov_mtx, self.avg, self.tlen>>
SumsD(self) == <<self.cov_mtx, self.avg, self.avg_dt, self.tlen>>

RECURSIVE MSum(_, _)
MSum(ms, dim) == IF ms = <<>> THEN zeros2(dim, dim) ELSE MAdd(Head(ms), MSum(Tail(ms), dim))
RECURSIVE VSum(_, _)
VSum(vs, dim) == IF vs = <<>> THEN zeros1(dim) ELSE VAdd(Head(vs), VSum(Tail(vs), dim))
RECURSIVE ISum(_)
ISum(is) == IF is = <<>> THEN 0 ELSE Head(is) + ISum(Tail(is))

\* rows are numbered from 0; run i holds the rows RunStart .. RunEnd
RunStart(runs, i) == NRows(SubSeq(runs, 1, i - 1))
RunEnd(runs, i) == RunStart(runs, i) + runs[i].k - 1
Overlap(lo1, hi1, lo2, hi2) == Max(0, Min(hi1, hi2) - Max(lo1, lo2) + 1)

\* the sum of x[t]^T x[t+dt] over the rows t, t+dt of one array
WithinCross(a, dt) ==
    LET m == Len(a.runs)
        Pair(i, j) ==
            MScale(Overlap(RunStart(a.runs, i), RunEnd(a.runs, i),
                           RunStart(a.runs, j) - dt, RunEnd(a.runs, j) - dt),
                   outerproduct(a.runs[i].row, a.runs[j].row))
    IN  MSum(Tup(m * m, [q \in 1..(m * m) |->
                 Pair(((q - 1) \div m) + 1, ((q - 1) % m) + 1)]), a.dim)
\* the sum of the rows lo .. hi of one array
RowSum(a, lo, hi) ==
    VSum(Tup(Len(a.runs), [i \in 1..Len(a.runs) |->
             VScale(Overlap(RunStart(a.runs, i), RunEnd(a.runs, i), lo, hi),
                    a.runs[i].row)]), a.dim)

AllCross(hist, dt) ==
    MSum(Tup(Len(hist), [b \in 1..Len(hist) |-> WithinCross(hist[b], dt)]), hist[1].dim)
AllLead(hist, dt) ==
    VSum(Tup(Len(hist), [b \in 1..Len(hist) |->
             RowSum(hist[b], 0, NRows(hist[b].runs) - dt - 1)]), hist[1].dim)
AllLag(hist, dt) ==
    VSum(Tup(Len(hist), [b \in 1..Len(hist) |->
             RowSum(hist[b], dt, NRows(hist[b].runs) - 1)]), hist[1].dim)
AllRows(hist, dt) ==
    ISum(Tup(Len(hist), [b \in 1..Len(hist) |-> NRows(hist[b].runs) - dt]))

IsUpdate == op'.name = "update"
IsFix == op'.name = "fix"

\* C1: a delay.update with fewer than dt+1 rows raises MDPException and
\* leaves every attribute of the accumulator as it was.
C1_FailedUpdateKeepsState ==
    [][(IsUpdate /\ shape0(op'.x) < delay.dt + 1)
         => (outD'.raised = "MDPException" /\ delay' = delay)]_vars

\* C2: a fix that the precision guard stops changes nothing of the
\* accumulator (sums, count, buffers), for plain and for delay.
C2_GuardedFixKeepsState ==
    [][IsFix => /\ (outP'.raised = "MDPWarning" => plain' = plain /\ plain.cov_mtx # None)
                /\ (outD'.raised = "MDPWarning" => delay' = delay /\ delay.cov_mtx # None)]_vars
C2_Witness ==
    /\ op.name = "fix"
    /\ outP.raised = "MDPWarning" /\ outD.raised = "MDPWarning"
    /\ plain.tlen >= 100000 /\ delay.tlen >= 100000

\* C3 (as stated): after a fix that returned, every attribute equals that
\* of a new instance built with the same constructor arguments.
C3_SameAsNewInstance ==
    /\ (op.name = "fix" /\ outP.raised = Returned
          => plain = CovarianceMatrix(ctor.typecode))
    /\ (op.name = "fix" /\ outD.raised = Returned
          => delay = DelayCovarianceMatrix(ctor.dt, ctor.typecode))

\* C3 (amended): after a fix that returned, the sums are unset and the
\* count is 0 as in a new instance, the typecode and _input_dim fixed by
\* the first array are kept; and what a fix returns is what a new instance
\* built with the kept typecode returns for the arrays taken since the
\* last clean-up.
C3_SameAsNewInstanceOfKeptType ==
    [][IsFix =>
        /\ (outP'.raised = Returned =>
              /\ plain' = [CovarianceMatrix(plain.typecode)
                              EXCEPT !.input_dim = plain.input_dim]
              /\ outP'.ret = Cov_fix(FoldCov(CovarianceMatrix(plain.typecode), histP),
                                     zdiv).ret)
        /\ (outD'.raised = Returned =>
              /\ delay' = [DelayCovarianceMatrix(delay.dt, delay.typecode)
                              EXCEPT !.input_dim = delay.input_dim]
              /\ (dirty = 0 /\ histD # <<>> =>
                    outD'.ret = Delay_fix(FoldDelay(DelayCovarianceMatrix(delay.dt,
                                              delay.typecode), histD), op'.A, zdiv).ret))
      ]_vars
\* a fix returned in an accumulation that began, after a clean-up, with an
\* array of another width and another typecode than the ones kept
C3_Witness ==
    /\ op.name = "fix" /\ outP.raised = Returned /\ outD.raised = Returned
    /\ ctor.typecode = TNone
    /\ first.dim # NoDim /\ first.dim # plain.input_dim
    /\ first.typecode # plain.typecode

\* C4: the running state after update(B1); update(B2) is the running
\* state after one update(B1 ++ B2) on an empty accumulator; the same for
\* the delayed accumulator with dt = 0.
C4_Merge ==
    /\ (histP # <<>> =>
          SumsP(plain) = SumsP(Cov_update(CovarianceMatrix(plain.typecode),
                                          Concat(histP, plain.typecode))))
    /\ (ctor.dt = 0 /\ histD # <<>> /\ dirty = 0 =>
          SumsD(delay) = SumsD(Delay_update(DelayCovarianceMatrix(0, delay.typecode),
                                            Concat(histD, delay.typecode)).self))
C4_Witness ==
    /\ ctor.dt = 0 /\ dirty = 0
    /\ Len(histP) = 2 /\ histD = histP
    /\ NRows(histP[1].runs) > 0 /\ NRows(histP[2].runs) > 1
    /\ histP[1] # histP[2]

\* C5: with dt = 0 the delayed accumulator keeps the sums and the count
\* of the plain one after every update, and fix without a transform
\* returns the plain mean twice, the plain count and the plain covariance.
C5_LagZero ==
    [][(ctor.dt = 0 /\ dirty = 0) =>
        /\ (dirty' = 0 =>
              /\ delay'.cov_mtx = plain'.cov_mtx
              /\ delay'.avg = plain'.avg
              /\ delay'.avg_dt = plain'.avg
              /\ delay'.tlen = plain'.tlen)
        /\ (IsFix /\ op'.A = None /\ outP'.raised = Returned =>
              /\ outD'.raised = Returned
              /\ outD'.ret = <<outP'.ret[1], outP'.ret[2], outP'.ret[2], outP'.ret[3]>>)
      ]_vars
C5_Witness ==
    /\ ctor.dt = 0 /\ op.name = "fix" /\ op.A = None
    /\ outP.raised = Returned /\ outD.raised = Returned
    /\ outP.ret[3] >= 3
    /\ outD.ret[1] # MQ(zeros2(Len(outD.ret[1]), Len(outD.ret[1])))

\* C6: the delayed sums hold the pairs inside each array and no other:
\* count = sum of (n_i - dt), sum_cross = sum over the arrays of
\* x[t]^T x[t+dt], sum_lead = the rows [0, n_i-dt), sum_lag = the rows
\* [dt, n_i); the count is (k-1)*dt below that of one update with the
\* concatenation.
C6_BoundaryLoss ==
    (dirty = 0 /\ histD # <<>>) =>
        /\ delay.tlen = AllRows(histD, delay.dt)
        /\ delay.cov_mtx = AllCross(histD, delay.dt)
        /\ delay.avg = AllLead(histD, delay.dt)
        /\ delay.avg_dt = AllLag(histD, delay.dt)
        /\ Delay_update(DelayCovarianceMatrix(delay.dt, delay.typecode),
                        Concat(histD, delay.typecode)).self.tlen
             = delay.tlen + (Len(histD) - 1) * delay.dt
C6_Witness ==
    /\ delay.dt > 0 /\ dirty = 0 /\ Len(histD) = 2
    /\ NRows(histD[1].runs) = 3 /\ NRows(histD[2].runs) = 2

\* C7: the guard raises exactly when the typecode is 'd' and int(t) >= 1e13
\* or the typecode is 'f' and int(t) >= 1e5.
C7_GuardThreshold ==
    guard.raised \in {"MDPWarning", Returned} =>
        (guard.raised = "MDPWarning" <=>
            \/ (guard.type = "d" /\ guard.t.hi >= 1000000)
            \/ (guard.type = "f" /\ (guard.t.hi >= 1 \/ guard.t.lo >= 100000)))
C7_Witness ==
    /\ guard.raised = "MDPWarning"
    /\ guard.type = "d" /\ guard.t = Num(1000000, 0, 0)

\* the count at construction, and what one call does to the count
C8_CountInit == op.name = "init" => plain.tlen = 0 /\ delay.tlen = 0
C8_CountStep ==
    LET n == shape0(op'.x)
    IN  /\ IsUpdate =>
              /\ plain'.tlen = plain.tlen + n
              /\ (outD'.raised = Returned <=> n >= delay.dt + 1)
              /\ delay'.tlen = delay.tlen +
                    (IF outD'.raised = Returned THEN n - delay.dt ELSE 0)
        /\ IsFix =>
              /\ (outP'.raised = Returned =>
                    plain'.tlen = 0 /\ outP'.ret[3] = AllRows(histP, 0))
              /\ (outP'.raised # Returned => plain'.tlen = plain.tlen)
              /\ (outD'.raised = Returned =>
                    delay'.tlen = 0 /\ outD'.ret[4] = AllRows(histD, delay.dt))
              /\ (outD'.raised # Returned => delay'.tlen = delay.tlen)
\* C8: the count is 0 at construction; an update adds n_rows (plain) or
\* n_rows - dt (delay) when it succeeds and nothing when it fails; a fix
\* that returns sets it to 0 and returns the sum of the additions since the
\* last clean-up; a fix that raises keeps it.
C8_CountDiscipline == C8_CountInit /\ [][C8_CountStep]_vars
C8_Witness ==
    /\ op.name = "fix" /\ outP.raised = Returned /\ outD.raised = Returned
    /\ ctor.dt > 0 /\ outP.ret[3] = 5 /\ outD.ret[4] = 3

\* C9: for n >= 2 rows, plain fix returns count = n, mean with
\* n * mean = sum_vec and covariance C with
\* n * (n-1) * C = n * sum_outer - outer(sum_vec, sum_vec); for the single
\* array [[1,2],[3,4],[5,6]] it returns 3, [3,4] and [[4,4],[4,4]].
C9_Unbiased ==
    [][(IsFix /\ outP'.raised = Returned /\ AllRows(histP, 0) >= 2) =>
        LET n == AllRows(histP, 0)
            S == AllCross(histP, 0)
            v == AllLead(histP, 0)
            C == outP'.ret[1]
            mean == outP'.ret[2]
        IN  /\ outP'.ret[3] = n
            /\ \A i \in 1..Len(v) : QMul(QInt(n), mean[i]) = QInt(v[i])
            /\ \A i \in 1..Len(v), j \in 1..Len(v) :
                   QMul(QInt(n * (n - 1)), C[i][j]) = QInt(n * S[i][j] - v[i] * v[j])
            /\ (histP = <<[dim |-> 2, runs |-> Runs(Example)]>> =>
                   outP'.ret = <<MQ(<< <<4, 4>>, <<4, 4>> >>), VQ(<<3, 4>>), 3>>)
      ]_vars
C9_Witness ==
    /\ op.name = "fix"
    /\ outP.ret = <<MQ(<< <<4, 4>>, <<4, 4>> >>), VQ(<<3, 4>>), 3>>

\* C10: once a fix has raised MDPWarning, every later fix of the instance
\* raises it again, and the instance never gets back to the empty state.
C10_WarningIsPermanent ==
    /\ (warnedP > 0 =>
          /\ plain.cov_mtx # None /\ plain.tlen >= warnedP
          /\ (op.name = "fix" => outP.raised = "MDPWarning" /\ outP.ret = None))
    /\ (warnedD > 0 =>
          /\ delay.cov_mtx # None /\ delay.tlen >= warnedD
          /\ (op.name = "fix" => outD.raised = "MDPWarning" /\ outD.ret = None))
C10_Witness ==
    /\ op.name = "fix"
    /\ warnedP > 0 /\ plain.tlen > warnedP /\ outP.raised = "MDPWarning"
    /\ warnedD > 0 /\ delay.tlen > warnedD /\ outD.raised = "MDPWarning"

====
